---- MODULE Spec2Model ----
(***************************************************************************)
(* Model of cmdline::parse (include/cmdline_parser.h).                     *)
(*                                                                         *)
(* A std::string is a sequence of one-character strings, so that           *)
(* arg.front() == '-', argv[i][0] == '-' and the lookup of a whole token    *)
(* in the flag table are computed on the characters, as the code does.      *)
(* A std::map<std::string, T> is a function whose DOMAIN is the set of      *)
(* keys present.  Assertions are compiled in (NDEBUG is not defined): a     *)
(* failing assert ends the run in pc = "abort".                             *)
(* Tokens of the argument vector are non-empty strings.                     *)
(***************************************************************************)
EXTENDS Integers, Sequences, FiniteSets, TLC

VARIABLES options, argv, allFlags, result, positionalOption, i, pc,
          exitCode, out, err, read, calls

vars == <<options, argv, allFlags, result, positionalOption, i, pc,
          exitCode, out, err, read, calls>>

(***************************************************************************)
(* Bounds of the model.                                                    *)
(***************************************************************************)
MaxArgs == 3

(***************************************************************************)
(* String literals.                                                        *)
(***************************************************************************)
Empty == <<>>
Dash == "-"
Period == "."
Slash == "/"
EqualSign == "="
S_help == <<"h", "e", "l", "p">>
S_version == <<"v", "e", "r", "s", "i", "o", "n">>
S_true == <<"t", "r", "u", "e">>
S_dash_h == <<"-", "h">>
S_dash_help == <<"-", "-", "h", "e", "l", "p">>
S_dash_v == <<"-", "v">>
S_dash_version == <<"-", "-", "v", "e", "r", "s", "i", "o", "n">>
S_helpDescr == <<"p", "r", "i", "n", "t", " ", "t", "h", "i", "s", " ",
                 "h", "e", "l", "p", " ", "m", "e", "s", "s", "a", "g", "e">>
S_versionDescr == <<"p", "r", "i", "n", "t", " ", "p", "r", "o", "g", "r", "a", "m",
                    " ", "v", "e", "r", "s", "i", "o", "n">>
S_Error == <<"E", "r", "r", "o", "r", ":", " ">>

\* strings of the schemas and argument vectors the model draws from
S_about == <<"R", "e", "n", "a", "m", "e", " ", "a", " ", "f", "i", "l", "e">>
S_ver10 == <<"1", ".", "0">>
S_input == <<"i", "n", "p", "u", "t">>
S_inputDescr == <<"I", "n", "p", "u", "t", " ", "f", "i", "l", "e">>
S_in_txt == <<"i", "n", ".", "t", "x", "t">>
S_dash_o == <<"-", "o">>
S_dash_output == <<"-", "-", "o", "u", "t", "p", "u", "t">>
S_outputDescr == <<"O", "u", "t", "p", "u", "t", " ", "f", "i", "l", "e">>
S_output_txt == <<"o", "u", "t", "p", "u", "t", ".", "t", "x", "t">>
S_dash_q == <<"-", "q">>
S_quietDescr == <<"Q", "u", "i", "e", "t">>
S_dash_n == <<"-", "n">>
S_num == <<"n", "u", "m">>
S_numDescr == <<"C", "o", "u", "n", "t">>
S_zero == <<"0">>
S_seven == <<"7">>
S_dash_n_eq_7 == <<"-", "n", "=", "7">>
S_a_txt == <<"a", ".", "t", "x", "t">>
S_prog == <<"b", "i", "n", "/", "p", "r", "o", "g">>

(***************************************************************************)
(* std::string and std::map helpers.                                       *)
(***************************************************************************)
front(s) == s[1]
back(s) == s[Len(s)]

\* std::map::operator[] as an rvalue: the mapped value, "" for a key it inserts
MapGet(m, k) == IF k \in DOMAIN m THEN m[k] ELSE Empty

\* std::map::operator[] followed by an assignment
MapSet(m, k, v) == [x \in (DOMAIN m) \cup {k} |-> IF x = k THEN v ELSE m[x]]

EmptyMap == [x \in {} |-> Empty]

(***************************************************************************)
(* struct ProgramOption and its constructors.                              *)
(***************************************************************************)
DefaultProgramOption ==
    [name |-> Empty, flags |-> <<>>, description |-> Empty, defaultValue |-> Empty]

\* the asserts of ProgramOption(std::string, std::string, std::string)
NamedOptionAsserts(optName, optDescr, optDefVal) ==
    /\ optDescr # Empty
    /\ back(optDescr) # Period
    /\ (optName \in {S_help, S_version}) => optDefVal = Empty

ProgramOptionNamed(optName, optDescr, optDefVal) ==
    IF optName = S_help
    THEN [name |-> optName, flags |-> <<S_dash_h, S_dash_help>>,
          description |-> S_helpDescr, defaultValue |-> optDescr]
    ELSE IF optName = S_version
    THEN [name |-> optName, flags |-> <<S_dash_v, S_dash_version>>,
          description |-> S_versionDescr, defaultValue |-> optDescr]
    ELSE [name |-> optName, flags |-> <<>>,
          description |-> optDescr, defaultValue |-> optDefVal]

RECURSIVE FlagsOf(_)
FlagsOf(optFlags) ==
    IF optFlags = <<>> THEN <<>>
    ELSE IF front(Head(optFlags)) = Dash
         THEN <<Head(optFlags)>> \o FlagsOf(Tail(optFlags))
         ELSE FlagsOf(Tail(optFlags))

RECURSIVE NameOf(_, _)
NameOf(optFlags, name) ==
    IF optFlags = <<>> THEN name
    ELSE IF front(Head(optFlags)) = Dash
         THEN NameOf(Tail(optFlags), name)
         ELSE NameOf(Tail(optFlags), Head(optFlags))

\* the asserts of ProgramOption(std::initializer_list<std::string>, ...)
FlagsOptionAsserts(optFlags, optDescr) ==
    /\ optDescr # Empty
    /\ back(optDescr) # Period
    /\ Cardinality({k \in 1..Len(optFlags) : front(optFlags[k]) # Dash}) <= 1

ProgramOptionFlags(optFlags, optDescr, optDefVal) ==
    [name |-> NameOf(optFlags, Empty), flags |-> FlagsOf(optFlags),
     description |-> optDescr, defaultValue |-> optDefVal]

(***************************************************************************)
(* The schemas and argument vectors the model draws from.                  *)
(***************************************************************************)
optHelp == ProgramOptionNamed(S_help, S_about, Empty)
optVersion == ProgramOptionNamed(S_version, S_ver10, Empty)
optInput == ProgramOptionNamed(S_input, S_inputDescr, Empty)
optInputDefault == ProgramOptionNamed(S_input, S_inputDescr, S_in_txt)
optOutput == ProgramOptionFlags(<<S_dash_o, S_dash_output>>, S_outputDescr, S_output_txt)
optQuiet == ProgramOptionFlags(<<S_dash_q>>, S_quietDescr, Empty)
optNum == ProgramOptionFlags(<<S_dash_n, S_num>>, S_numDescr, S_zero)

Opt(o) == {<<>>, <<o>>}

Schemas ==
    {h \o v \o p \o o \o q \o n :
        h \in Opt(optHelp), v \in Opt(optVersion),
        p \in Opt(optInput) \cup Opt(optInputDefault),
        o \in Opt(optOutput), q \in Opt(optQuiet), n \in Opt(optNum)}

Tokens == {S_dash_h, S_dash_help, S_dash_v, S_dash_o, S_dash_q, S_dash_n, S_dash_n_eq_7,
           S_a_txt, S_seven}

ArgVectors ==
    {<<S_prog>> \o t : t \in UNION {[1..n -> Tokens] : n \in 0..MaxArgs}}

(***************************************************************************)
(* priv::extractProgramName and priv::displayHelpMessage.                  *)
(***************************************************************************)
PadColumn == 20

Max(S) == CHOOSE x \in S : \A y \in S : y <= x

extractProgramName(argv0) ==
    LET slashes == {k \in 1..Len(argv0) : argv0[k] = Slash}
        lastSlash == IF slashes = {} THEN 0 ELSE (Max(slashes) - 1) + 1
    IN  SubSeq(argv0, lastSlash + 1, Len(argv0))

RECURSIVE JoinedLength(_)
\* length of the flags joined by ", "
JoinedLength(flags) ==
    IF flags = <<>> THEN 0
    ELSE IF Len(flags) = 1 THEN Len(Head(flags))
    ELSE Len(Head(flags)) + 2 + JoinedLength(Tail(flags))

RECURSIVE HelpAndVersion(_)
HelpAndVersion(opts) ==
    IF opts = <<>> THEN <<>>
    ELSE IF Head(opts).name \in {S_help, S_version}
         THEN Head(opts).flags \o HelpAndVersion(Tail(opts))
         ELSE HelpAndVersion(Tail(opts))

RECURSIVE AllPositionals(_)
AllPositionals(opts) ==
    IF opts = <<>> THEN <<>>
    ELSE IF Head(opts).name \notin {S_help, S_version, Empty}
         THEN <<Head(opts).name>> \o AllPositionals(Tail(opts))
         ELSE AllPositionals(Tail(opts))

RECURSIVE AboutMsg(_, _)
AboutMsg(opts, aboutMsg) ==
    IF opts = <<>> THEN aboutMsg
    ELSE IF Head(opts).name = S_help
         THEN AboutMsg(Tail(opts), Head(opts).defaultValue)
         ELSE AboutMsg(Tail(opts), aboutMsg)

RECURSIVE OptionLines(_)
OptionLines(opts) ==
    IF opts = <<>> THEN <<>>
    ELSE IF Head(opts).flags # <<>>
         THEN <<[allFlags |-> Head(opts).flags,
                 paddingLength |-> IF JoinedLength(Head(opts).flags) < PadColumn
                                   THEN PadColumn - JoinedLength(Head(opts).flags)
                                   ELSE 0,
                 description |-> Head(opts).description]>>
              \o OptionLines(Tail(opts))
         ELSE OptionLines(Tail(opts))

\* what displayHelpMessage writes to std::cout
displayHelpMessage(argv0, opts) ==
    [kind |-> "help",
     progName |-> extractProgramName(argv0),
     allPositionals |-> AllPositionals(opts),
     helpAndVersion |-> HelpAndVersion(opts),
     aboutMsg |-> AboutMsg(opts, Empty),
     lines |-> OptionLines(opts)]

\* what "std::cout << opt.defaultValue << std::endl" writes
VersionLine(opt) == [kind |-> "version", text |-> opt.defaultValue]

\* a line written to std::cerr
ErrorLine(what, subject, descr) ==
    [prefix |-> S_Error, what |-> what, subject |-> subject, description |-> descr]

(***************************************************************************)
(* priv::setValue: the assert, then the assignment under opt.name.         *)
(***************************************************************************)
setValue(res, opt, value) ==
    [ok |-> MapGet(res, opt.name) = Empty,
     key |-> opt.name,
     found |-> MapGet(res, opt.name),
     result |-> MapSet(res, opt.name, value)]

(***************************************************************************)
(* The state of one call of parse, as a record, and its steps.             *)
(***************************************************************************)
StartOfParse(opts, av) ==
    [options |-> opts, argv |-> av, allFlags |-> EmptyMap, result |-> EmptyMap,
     positionalOption |-> DefaultProgramOption, i |-> 1, pc |-> "build",
     exitCode |-> -1, out |-> <<>>, err |-> <<>>, read |-> {}, calls |-> <<>>]

Abort(st) == [st EXCEPT !.pc = "abort"]

Exit(st, code) == [st EXCEPT !.pc = "exit", !.exitCode = code]

\* the condition of the second if of the first loop
IsPositional(opt) ==
    /\ opt.name # Empty
    /\ opt.flags = <<>>
    /\ opt.name # S_help
    /\ opt.name # S_version

RECURSIVE SeedFlags_SkipEmptyDefault(_, _, _)
\* SeedFlags with a defect: a flag whose default is empty gets no entry
SeedFlags_SkipEmptyDefault(st, opt, k) ==
    IF k > Len(opt.flags) \/ st.pc = "abort" THEN st
    ELSE LET name == opt.flags[k] IN
         IF name \in DOMAIN st.allFlags
         THEN Abort(st)
         ELSE SeedFlags_SkipEmptyDefault(
                  [st EXCEPT !.allFlags = MapSet(@, name, opt),
                             !.result = IF opt.defaultValue = Empty THEN @
                                        ELSE MapSet(@, name, opt.defaultValue)],
                  opt, k + 1)

RECURSIVE SeedFlags_SkipReserved(_, _, _)
\* SeedFlags with a defect: the flags of help and version get no entry
SeedFlags_SkipReserved(st, opt, k) ==
    IF k > Len(opt.flags) \/ st.pc = "abort" THEN st
    ELSE LET name == opt.flags[k] IN
         IF name \in DOMAIN st.allFlags
         THEN Abort(st)
         ELSE SeedFlags_SkipReserved(
                  [st EXCEPT !.allFlags = MapSet(@, name, opt),
                             !.result = IF opt.name \in {S_help, S_version} THEN @
                                        ELSE MapSet(@, name, opt.defaultValue)],
                  opt, k + 1)

RECURSIVE SeedFlags(_, _, _)
\* for (auto name : opt.flags), from the k-th flag on
SeedFlags(st, opt, k) ==
    IF k > Len(opt.flags) \/ st.pc = "abort" THEN st
    ELSE LET name == opt.flags[k] IN
         IF name \in DOMAIN st.allFlags
         THEN Abort(st)
         ELSE SeedFlags([st EXCEPT !.allFlags = MapSet(@, name, opt),
                                   !.result = MapSet(@, name, opt.defaultValue)],
                        opt, k + 1)

\* one iteration of for (const auto opt : options)
SeedOption(st, opt) ==
    LET seeded == SeedFlags(st, opt, 1) IN
    IF seeded.pc = "abort" THEN seeded
    ELSE IF IsPositional(opt)
         THEN IF seeded.positionalOption.name # Empty
              THEN Abort(seeded)
              ELSE [seeded EXCEPT !.positionalOption = opt]
         ELSE seeded

RECURSIVE SeedOptions(_, _)
SeedOptions(st, k) ==
    IF k > Len(st.options) \/ st.pc = "abort" THEN st
    ELSE SeedOptions(SeedOption(st, st.options[k]), k + 1)

\* the first loop of parse: the flag table and the default values
BuildFlagTableOp(st) ==
    LET seeded == SeedOptions(st, 1) IN
    IF seeded.pc = "abort" THEN seeded ELSE [seeded EXCEPT !.pc = "scan"]

\* MissingValue with a defect: only the end of the vector counts
MissingValue_EndOnly(av, j) == j = Len(av)

\* "i == argc || argv[i][0] == '-'" after the ++i of a named option
MissingValue(av, j) == j = Len(av) \/ front(av[j + 1]) = Dash

\* a call of setValue in parse, and the index the loop goes on from
Bind(st, opt, value, next) ==
    LET call == setValue(st.result, opt, value)
        logged == [st EXCEPT !.calls = Append(@, [key |-> call.key, value |-> value,
                                                   found |-> call.found])]
    IN  IF call.ok
        THEN [logged EXCEPT !.result = call.result, !.i = next]
        ELSE Abort(logged)

\* KnownFlag with a defect: help and version end with the error exit code
KnownFlag_ReservedExitCode(st, arg, opt) ==
    IF opt.name = S_help
    THEN Exit([st EXCEPT !.out = Append(@, displayHelpMessage(st.argv[1], st.options))], 1)
    ELSE IF opt.name = S_version
    THEN Exit([st EXCEPT !.out = Append(@, VersionLine(opt))], 1)
    ELSE IF opt.name # Empty
    THEN LET j == st.i + 1
             looked == [st EXCEPT !.i = j,
                                  !.read = IF j < Len(st.argv) THEN @ \cup {j} ELSE @]
         IN  IF MissingValue(st.argv, j)
             THEN Exit([looked EXCEPT !.err = Append(@,
                          ErrorLine("missing value for option", arg, opt.description))], 1)
             ELSE Bind(looked, opt, st.argv[j + 1], j + 1)
    ELSE Bind(st, opt, S_true, st.i + 1)

\* KnownFlag with a defect: an option with a default value expects a value
KnownFlag_DefaultExpectsValue(st, arg, opt) ==
    IF opt.name = S_help
    THEN Exit([st EXCEPT !.out = Append(@, displayHelpMessage(st.argv[1], st.options))], 0)
    ELSE IF opt.name = S_version
    THEN Exit([st EXCEPT !.out = Append(@, VersionLine(opt))], 0)
    ELSE IF opt.name # Empty \/ opt.defaultValue # Empty
    THEN LET j == st.i + 1
             looked == [st EXCEPT !.i = j,
                                  !.read = IF j < Len(st.argv) THEN @ \cup {j} ELSE @]
         IN  IF MissingValue(st.argv, j)
             THEN Exit([looked EXCEPT !.err = Append(@,
                          ErrorLine("missing value for option", arg, opt.description))], 1)
             ELSE Bind(looked, opt, st.argv[j + 1], j + 1)
    ELSE Bind(st, opt, S_true, st.i + 1)

\* the branch of a token found in the flag table
KnownFlag(st, arg, opt) ==
    IF opt.name = S_help
    THEN Exit([st EXCEPT !.out = Append(@, displayHelpMessage(st.argv[1], st.options))], 0)
    ELSE IF opt.name = S_version
    THEN Exit([st EXCEPT !.out = Append(@, VersionLine(opt))], 0)
    ELSE IF opt.name # Empty
    THEN LET j == st.i + 1
             looked == [st EXCEPT !.i = j,
                                  !.read = IF j < Len(st.argv) THEN @ \cup {j} ELSE @]
         IN  IF MissingValue(st.argv, j)
             THEN Exit([looked EXCEPT !.err = Append(@,
                          ErrorLine("missing value for option", arg, opt.description))], 1)
             ELSE Bind(looked, opt, st.argv[j + 1], j + 1)
    ELSE Bind(st, opt, S_true, st.i + 1)

\* one iteration of the second loop of parse, on argv[i]
ScanTokenOp(st) ==
    LET arg == st.argv[st.i + 1]
        cur == [st EXCEPT !.read = @ \cup {st.i}]
    IN  IF front(arg) = Dash
        THEN IF arg \in DOMAIN cur.allFlags
             THEN KnownFlag(cur, arg, cur.allFlags[arg])
             ELSE Exit([cur EXCEPT
                          !.err = Append(@, ErrorLine("unknown option", arg, Empty)),
                          !.out = Append(@, displayHelpMessage(cur.argv[1], cur.options))], 1)
        ELSE IF cur.positionalOption.name # Empty
        THEN LET set == Bind(cur, cur.positionalOption, arg, cur.i + 1) IN
             IF set.pc = "abort" THEN set
             ELSE [set EXCEPT !.positionalOption = DefaultProgramOption]
        ELSE Exit([cur EXCEPT
                     !.err = Append(@, ErrorLine("unexpected value", arg, Empty)),
                     !.out = Append(@, displayHelpMessage(cur.argv[1], cur.options))], 1)

\* after the second loop: the positional must have been given
CheckPositionalOp(st) ==
    IF st.positionalOption.name # Empty
    THEN IF MapGet(st.result, st.positionalOption.name) # Empty
         THEN Abort(st)
         ELSE Exit([st EXCEPT
                      !.result = MapSet(@, st.positionalOption.name, Empty),
                      !.err = Append(@, ErrorLine("missing value", st.positionalOption.name,
                                                  st.positionalOption.description)),
                      !.out = Append(@, displayHelpMessage(st.argv[1], st.options))], 1)
    ELSE [st EXCEPT !.pc = "return"]

RECURSIVE Run(_)
Run(st) ==
    IF st.pc = "build" THEN Run(BuildFlagTableOp(st))
    ELSE IF st.pc = "scan"
         THEN IF st.i < Len(st.argv) THEN Run(ScanTokenOp(st)) ELSE Run(CheckPositionalOp(st))
         ELSE st

\* what the caller of parse observes
Outcome(st) ==
    [pc |-> st.pc, exitCode |-> st.exitCode,
     result |-> IF st.pc = "return" THEN st.result ELSE EmptyMap,
     out |-> st.out, err |-> st.err]

parse(av, opts) == Outcome(Run(StartOfParse(opts, av)))

(***************************************************************************)
(* The state machine.                                                      *)
(***************************************************************************)
Current ==
    [options |-> options, argv |-> argv, allFlags |-> allFlags, result |-> result,
     positionalOption |-> positionalOption, i |-> i, pc |-> pc,
     exitCode |-> exitCode, out |-> out, err |-> err, read |-> read, calls |-> calls]

Becomes(st) ==
    /\ options' = st.options
    /\ argv' = st.argv
    /\ allFlags' = st.allFlags
    /\ result' = st.result
    /\ positionalOption' = st.positionalOption
    /\ i' = st.i
    /\ pc' = st.pc
    /\ exitCode' = st.exitCode
    /\ out' = st.out
    /\ err' = st.err
    /\ read' = st.read
    /\ calls' = st.calls

\* the asserts of the constructors hold of every option the schemas are built from
SchemasConstructible ==
    /\ NamedOptionAsserts(S_help, S_about, Empty)
    /\ NamedOptionAsserts(S_version, S_ver10, Empty)
    /\ NamedOptionAsserts(S_input, S_inputDescr, Empty)
    /\ NamedOptionAsserts(S_input, S_inputDescr, S_in_txt)
    /\ FlagsOptionAsserts(<<S_dash_o, S_dash_output>>, S_outputDescr)
    /\ FlagsOptionAsserts(<<S_dash_q>>, S_quietDescr)
    /\ FlagsOptionAsserts(<<S_dash_n, S_num>>, S_numDescr)

Init ==
    /\ SchemasConstructible
    /\ \E opts \in Schemas, av \in ArgVectors :
           /\ options = opts
           /\ argv = av
           /\ allFlags = EmptyMap
           /\ result = EmptyMap
           /\ positionalOption = DefaultProgramOption
           /\ i = 1
           /\ pc = "build"
           /\ exitCode = -1
           /\ out = <<>>
           /\ err = <<>>
           /\ read = {}
           /\ calls = <<>>

BuildFlagTable ==
    /\ pc = "build"
    /\ Becomes(BuildFlagTableOp(Current))

ScanToken ==
    /\ pc = "scan"
    /\ i < Len(argv)
    /\ Becomes(ScanTokenOp(Current))

CheckPositional ==
    /\ pc = "scan"
    /\ ~(i < Len(argv))
    /\ Becomes(CheckPositionalOp(Current))

Next == BuildFlagTable \/ ScanToken \/ CheckPositional

Spec == Init /\ [][Next]_vars

(***************************************************************************)
(* Vocabulary of the properties, read off the schema and the argument      *)
(* vector alone.                                                           *)
(***************************************************************************)
Range(f) == {f[k] : k \in DOMAIN f}

SchemaOptions == Range(options)

ReservedSpec(opt) == opt.name \in {S_help, S_version}

PureFlagSpec(opt) == opt.name = Empty /\ opt.flags # <<>>

ValueTakingSpec(opt) == opt.name # Empty /\ opt.flags # <<>> /\ ~ReservedSpec(opt)

PositionalSpec(opt) == opt.name # Empty /\ opt.flags = <<>> /\ ~ReservedSpec(opt)

DeclaredFlags == UNION {Range(opt.flags) : opt \in SchemaOptions}

ReservedFlags == UNION {Range(opt.flags) : opt \in {o \in SchemaOptions : ReservedSpec(o)}}

\* the positions of the tokens after the program name, as indices of argv
TokenPositions == 2..Len(argv)

DashPositions == {p \in TokenPositions : front(argv[p]) = Dash}

BarePositions == {p \in TokenPositions : front(argv[p]) # Dash}

\* the positions at which one of the option's flags stands
Selections(opt) == {p \in TokenPositions : argv[p] \in Range(opt.flags)}

Terminated == pc \in {"return", "exit", "abort"}

ExampleSchema == <<optHelp, optInput, optOutput>>

(***************************************************************************)
(* C1.  A pure flag whose default is not "true": after a normal return the *)
(* value under each of its flag keys is "true" iff one of its flags is in  *)
(* the argument vector, and is the declared default otherwise.             *)
(***************************************************************************)
C1_PureFlagResolved ==
    pc = "return" =>
        \A opt \in SchemaOptions :
            (PureFlagSpec(opt) /\ opt.defaultValue # S_true) =>
                \A f \in Range(opt.flags) :
                    /\ f \in DOMAIN result
                    /\ (MapGet(result, f) = S_true) <=> (Selections(opt) # {})
                    /\ (Selections(opt) = {}) => MapGet(result, f) = opt.defaultValue

(***************************************************************************)
(* C2.  A value-taking option whose flag occurs exactly once, followed by  *)
(* a token that does not start with '-': after a normal return the entry   *)
(* under each of the option's flag keys is that following token.           *)
(***************************************************************************)
C2_ValueUnderFlagKeys ==
    pc = "return" =>
        \A opt \in SchemaOptions : \A p \in TokenPositions :
            (/\ ValueTakingSpec(opt)
             /\ Selections(opt) = {p}
             /\ p < Len(argv)
             /\ front(argv[p + 1]) # Dash) =>
                \A f \in Range(opt.flags) : MapGet(result, f) = argv[p + 1]

ValueTakingFlags ==
    UNION {Range(opt.flags) : opt \in {o \in SchemaOptions : ValueTakingSpec(o)}}

\* the bare tokens that do not stand right after a value-taking flag
PositionalPositions == {p \in BarePositions : argv[p - 1] \notin ValueTakingFlags}

\* every dash-prefixed token is a declared flag that is not reserved, and at
\* most one bare token is positional
RecognizedVector ==
    /\ \A p \in DashPositions : argv[p] \in DeclaredFlags \ ReservedFlags
    /\ Cardinality(PositionalPositions) <= 1

SchemaKeys ==
    DeclaredFlags \cup {opt.name : opt \in {o \in SchemaOptions : PositionalSpec(o)}}

ExampleMissingOutput == <<S_prog, S_a_txt, S_dash_o>>

(***************************************************************************)
(* C4, as claimed.  With the example schema, ["prog", "a.txt", "-o"] ends  *)
(* with the error "missing value for option '-o'" and exit code 1.         *)
(***************************************************************************)
C4_ExampleMissingValue ==
    (Terminated /\ options = ExampleSchema /\ argv = ExampleMissingOutput) =>
        /\ pc = "exit"
        /\ exitCode = 1
        /\ err = <<ErrorLine("missing value for option", S_dash_o, S_outputDescr)>>

(***************************************************************************)
(* C4, amended.  An option declared only by dash-prefixed aliases is a     *)
(* pure flag whatever its default: no "missing value for option" error is  *)
(* ever reported for one of its flags, and with the example schema         *)
(* ["prog", "a.txt", "-o"] returns normally, nothing written to standard   *)
(* error, with input bound to a.txt.                                       *)
(***************************************************************************)
C4_DashOnlyOptionIsPureFlag ==
    /\ \A k \in 1..Len(err) : \A opt \in SchemaOptions :
           (PureFlagSpec(opt) /\ err[k].what = "missing value for option") =>
               err[k].subject \notin Range(opt.flags)
    /\ (Terminated /\ options = ExampleSchema /\ argv = ExampleMissingOutput) =>
           /\ pc = "return"
           /\ err = <<>>
           /\ MapGet(result, S_input) = S_a_txt

C4_Witness ==
    /\ pc = "return"
    /\ options = ExampleSchema
    /\ argv = ExampleMissingOutput
    /\ Len(calls) = 2

\* the run ended otherwise than by a normal return or the positional's
\* "missing value" error
OtherOutcome ==
    \/ pc = "abort"
    \/ pc = "exit" /\ exitCode = 0
    \/ \E k \in 1..Len(err) : err[k].what # "missing value"

(***************************************************************************)
(* C5.  A positional with a non-empty default is optional: on a vector     *)
(* with no bare token and no other error, parse returns normally and the   *)
(* positional's name maps to the default.                                  *)
(***************************************************************************)
C5_PositionalDefaultOptional ==
    \A opt \in SchemaOptions :
        (/\ Terminated
         /\ PositionalSpec(opt)
         /\ opt.defaultValue # Empty
         /\ BarePositions = {}
         /\ ~OtherOutcome) =>
            (pc = "return" /\ MapGet(result, opt.name) = opt.defaultValue)

ReservedKeys == {S_dash_h, S_dash_help, S_dash_v, S_dash_version}

ExampleVector == <<S_prog, S_a_txt>>

(***************************************************************************)
(* C6, as claimed.  After a normal return the mapping has no entry under   *)
(* -h, --help, -v or --version; the example schema with ["prog", "a.txt"]  *)
(* returns exactly {input: a.txt, -o: output.txt, --output: output.txt}.   *)
(***************************************************************************)
C6_ReservedNeverStored ==
    pc = "return" =>
        /\ DOMAIN result \cap ReservedKeys = {}
        /\ (options = ExampleSchema /\ argv = ExampleVector) =>
               result = [x \in {S_input, S_dash_o, S_dash_output} |->
                            IF x = S_input THEN S_a_txt ELSE S_output_txt]

(***************************************************************************)
(* C6, amended.  The reserved options are intercepted on the command line  *)
(* but seeded in the mapping: parse never returns normally on a vector     *)
(* holding a declared help or version flag, and after a normal return each *)
(* declared reserved flag maps to the about-text or version string; the    *)
(* example returns {input: a.txt, -o: output.txt, --output: output.txt,    *)
(* -h: Rename a file, --help: Rename a file}.                              *)
(***************************************************************************)
C6_ReservedSeededNotBound ==
    pc = "return" =>
        /\ \A p \in TokenPositions : argv[p] \notin ReservedFlags
        /\ \A opt \in SchemaOptions : ReservedSpec(opt) =>
               \A f \in Range(opt.flags) :
                   f \in DOMAIN result /\ result[f] = opt.defaultValue
        /\ (options = ExampleSchema /\ argv = ExampleVector) =>
               result = [x \in {S_input, S_dash_o, S_dash_output, S_dash_h, S_dash_help} |->
                            IF x = S_input THEN S_a_txt
                            ELSE IF x \in {S_dash_h, S_dash_help} THEN S_about
                            ELSE S_output_txt]

C6_Witness ==
    /\ pc = "return"
    /\ options = ExampleSchema
    /\ argv = ExampleVector
    /\ S_dash_help \in DOMAIN result

HelpFlags == UNION {Range(opt.flags) : opt \in {o \in SchemaOptions : o.name = S_help}}

VersionFlags == UNION {Range(opt.flags) : opt \in {o \in SchemaOptions : o.name = S_version}}

\* the loop is about to classify a declared help or version flag
AtReservedToken == pc = "scan" /\ i < Len(argv) /\ argv[i + 1] \in ReservedFlags

(***************************************************************************)
(* C7.  help and version short-circuit: when the scan classifies a         *)
(* declared help (version) flag, parse writes the help message (the        *)
(* version string) to standard output and exits with code 0, having read   *)
(* no later token; with -h or --help first, the exit code is 0 whatever    *)
(* follows.                                                                *)
(***************************************************************************)
C7_ShortCircuit ==
    /\ [][AtReservedToken =>
            /\ pc' = "exit"
            /\ exitCode' = 0
            /\ i' = i
            /\ read' = read \cup {i}
            /\ err' = <<>>
            /\ Len(out') = 1
            /\ out'[1].kind = IF argv[i + 1] \in HelpFlags THEN "help" ELSE "version"
            /\ argv[i + 1] \in VersionFlags =>
                   \E opt \in SchemaOptions :
                       opt.name = S_version /\ out'[1].text = opt.defaultValue]_vars
    /\ [](pc = "exit" /\ exitCode = 0 =>
            /\ argv[i + 1] \in ReservedFlags
            /\ \A p \in read : p <= i)
    /\ []((Terminated /\ Len(argv) >= 2 /\ argv[2] \in HelpFlags) =>
            /\ pc = "exit"
            /\ exitCode = 0
            /\ read = {1}
            /\ out[1].kind = "help"
            /\ out[1].progName = <<"p", "r", "o", "g">>)

C7_Witness ==
    /\ pc = "exit"
    /\ exitCode = 0
    /\ argv = <<S_prog, S_dash_h, S_dash_n_eq_7, S_a_txt>>
    /\ \A opt \in SchemaOptions : ~PositionalSpec(opt)
    /\ read = {1}

\* the '=' of a token, the flag before it and the value after it
EqualsAt(tok) == {k \in 1..Len(tok) : tok[k] = EqualSign}

FlagPart(tok) == SubSeq(tok, 1, Max(EqualsAt(tok)) - 1)

ValuePart(tok) == SubSeq(tok, Max(EqualsAt(tok)) + 1, Len(tok))

\* the vector with the token at p written as two tokens
TwoTokenForm(av, p) ==
    SubSeq(av, 1, p - 1) \o <<FlagPart(av[p]), ValuePart(av[p])>> \o SubSeq(av, p + 1, Len(av))

(***************************************************************************)
(* C8.  "-f=v" is equivalent to "-f" "v": for a declared flag -f, parsing  *)
(* the vector with the single token -f=v has the same outcome and the same *)
(* returned mapping as parsing it with the two tokens in its place, and    *)
(* the token is not rejected as an unknown option.                         *)
(***************************************************************************)
C8_EqualsSyntaxEquivalent ==
    Terminated =>
        \A p \in TokenPositions :
            (/\ Cardinality(EqualsAt(argv[p])) = 1
             /\ FlagPart(argv[p]) \in DeclaredFlags
             /\ ValuePart(argv[p]) # Empty) =>
                LET one == Outcome(Current)
                    two == parse(TwoTokenForm(argv, p), options)
                IN  /\ one.pc = two.pc
                    /\ one.exitCode = two.exitCode
                    /\ one.result = two.result
                    /\ \A k \in 1..Len(one.err) :
                           ~(one.err[k].what = "unknown option" /\ one.err[k].subject = argv[p])

PositionalDeclared == \E opt \in SchemaOptions : PositionalSpec(opt)

\* the positional's name has been bound by a call of setValue
PositionalBound ==
    \E opt \in SchemaOptions : \E k \in 1..Len(calls) :
        PositionalSpec(opt) /\ calls[k].key = opt.name

\* the cases (a), (b), (c) on the token the loop is about to classify
ScanError ==
    /\ pc = "scan"
    /\ i < Len(argv)
    /\ argv[i + 1] \notin ReservedFlags
    /\ \/ front(argv[i + 1]) = Dash /\ argv[i + 1] \notin DeclaredFlags
       \/ /\ \E opt \in SchemaOptions :
                 ValueTakingSpec(opt) /\ argv[i + 1] \in Range(opt.flags)
          /\ (i + 1 = Len(argv) \/ front(argv[i + 2]) = Dash)
       \/ /\ front(argv[i + 1]) # Dash
          /\ (~PositionalDeclared \/ PositionalBound)

\* the case (d): the scan is over and the declared positional is unbound
FinishError ==
    /\ pc = "scan"
    /\ i = Len(argv)
    /\ PositionalDeclared
    /\ ~PositionalBound

C10_NoRebinding ==
    (/\ \A opt \in SchemaOptions : Cardinality(Selections(opt)) <= 1
     /\ Cardinality(BarePositions) <= 1) =>
        /\ pc # "abort"
        /\ \A k \in 1..Len(calls) : calls[k].found = Empty

====
